---------------------------- MODULE Spec2Model ----------------------------
(***************************************************************************)
(* Dependency resolution and injection of the two scaffolding toolkits     *)
(* (go-gin-generator, vue3-generator): the registry client, the           *)
(* configuration-to-dependency resolver and the go.mod synthesis.          *)
(***************************************************************************)
EXTENDS Integers, Sequences, FiniteSets, TLC

VARIABLES
    pc,            \* position of the run
    config,        \* the project configuration handed to the resolver
    common_deps,   \* result of get_common_dependency_versions: name -> version
    gin_info,      \* gin_info["version"] of get_gin_framework_info
    dependencies,  \* list returned by _get_dependencies_for_config
    go_mod,        \* lines of the synthesized go.mod
    fn,            \* registry client function last called
    response,      \* registry response it was given
    result,        \* what it returned
    idx,           \* loop position of a registry pass
    queried,       \* packages whose registry query has been made in the pass
    registry,      \* what the registries answered during the run
    dev_dependencies, \* result of get_dev_dependencies_info: package -> version
    deps_to_add,   \* list the install loop of setup_gin_project goes through
    go_mod_path,   \* the go.mod file of the project directory
    log,           \* what the run has done so far, in order
    project_name,  \* config["project_name"]
    config_module_path,  \* config["module_path"]
    tools,         \* the binaries installed on the machine
    package_manager,  \* what setup_environment returned
    package_json_path, \* does package.json exist in the project directory
    cwd,           \* the working directory of the process
    dirs,          \* the directories that exist under the entry directory
    default_config \* GoGinProjectGenerator.default_config

\* the variables of the dependency setup and of the generator runs
runRest == <<deps_to_add, go_mod_path, log, project_name, config_module_path,
             tools, package_manager, package_json_path, cwd, dirs>>

runVars == <<runRest, default_config>>

vars == <<pc, config, common_deps, gin_info, dependencies, go_mod,
          fn, response, result, idx, queried, registry, dev_dependencies,
          runVars>>

-----------------------------------------------------------------------------
(* Bounds *)

\* longest version list a registry response carries
MaxList == 3

\* most sections a configuration file overrides
MaxFileSections == 2

-----------------------------------------------------------------------------
(* Strings.  A version string is modelled by its parts: the optional 'v'   *)
(* prefix, the dotted core and the suffix after it.                        *)

None == [kind |-> "None"]

Str(v, core, suffix) == [kind |-> "str", v |-> v, core |-> core, suffix |-> suffix]

\* ""
Empty == Str(FALSE, <<>>, "")
\* a line that is no version at all
Garbage == Str(FALSE, <<>>, "<html>")
\* the "latest" sentinel
Latest == Str(FALSE, <<>>, "latest")

\* Python truthiness of an Optional[str]
Truthy(s) == s # None /\ s # Empty

\* suffixes written with the pre-release markers of the specification
RawMarkers == {"-alpha", "-beta", "-rc", "-pre", "-dev", "-next"}

\* does the string carry one of alpha, beta, rc, pre, dev, next
HasMarker(s) ==
    s.kind = "str" /\ s.suffix \in RawMarkers \cup {"rc0", ".dev0"}

StableCores == {<<2, 0, 9>>, <<2, 1, 0>>, <<2, 10, 0>>}

\* version strings a registry may list, without the 'v' prefix
VersionStrings ==
    {Str(FALSE, c, "") : c \in StableCores}
        \cup {Str(FALSE, <<2, 2, 0>>, m) : m \in RawMarkers}

WithV(s) == [s EXCEPT !.v = TRUE]

\* tag_name[1:] when tag_name.startswith('v')
StripV(s) == [s EXCEPT !.v = FALSE]

-----------------------------------------------------------------------------
(* packaging.version *)

PhaseRank(p) ==
    CASE p = "dev" -> 0
      [] p = "a" -> 1
      [] p = "b" -> 2
      [] p = "rc" -> 3
      [] OTHER -> 4

\* version.parse raises InvalidVersion
Parseable(s) ==
    /\ s.kind = "str"
    /\ s.core # <<>>
    /\ s.suffix \in {"", "-alpha", "-beta", "-rc", "-pre", "-dev"}

\* version.parse: the 'v' prefix is dropped and the suffix normalised
parse(s) ==
    [core |-> s.core,
     phase |-> CASE s.suffix = "-alpha" -> "a"
                 [] s.suffix = "-beta" -> "b"
                 [] s.suffix \in {"-rc", "-pre"} -> "rc"
                 [] s.suffix = "-dev" -> "dev"
                 [] OTHER -> "final"]

\* str(Version)
str(ver) ==
    Str(FALSE, ver.core,
        CASE ver.phase = "a" -> "a0"
          [] ver.phase = "b" -> "b0"
          [] ver.phase = "rc" -> "rc0"
          [] ver.phase = "dev" -> ".dev0"
          [] OTHER -> "")

CoreLess(a, b) ==
    \/ a[1] < b[1]
    \/ a[1] = b[1] /\ a[2] < b[2]
    \/ a[1] = b[1] /\ a[2] = b[2] /\ a[3] < b[3]

\* Version.__lt__
VersionLess(x, y) ==
    \/ CoreLess(x.core, y.core)
    \/ x.core = y.core /\ PhaseRank(x.phase) < PhaseRank(y.phase)

RECURSIVE MaxFrom(_, _, _)
MaxFrom(seq, i, best) ==
    IF i > Len(seq) THEN best
    ELSE MaxFrom(seq, i + 1, IF VersionLess(best, seq[i]) THEN seq[i] ELSE best)

\* max() of a non-empty list of Version objects
max(seq) == MaxFrom(seq, 2, seq[1])

MapParse(seq) == [i \in 1..Len(seq) |-> parse(seq[i])]

-----------------------------------------------------------------------------
(* Registry responses *)

\* any failure of the request: unreachable host, timeout, HTTP error, bad body
Err == [kind |-> "error"]

\* an exception leaving a function instead of a return value
Raised == [kind |-> "raised"]

\* a source that was not asked
NotAsked == [kind |-> "not asked"]

RECURSIVE SeqsUpTo(_, _)
SeqsUpTo(S, n) ==
    IF n = 0 THEN {<<>>}
    ELSE LET shorter == SeqsUpTo(S, n - 1)
         IN  shorter \cup {Append(s, x) : s \in {t \in shorter : Len(t) = n - 1}, x \in S}

\* GitHub releases/latest: the tag_name of the JSON body (None: a JSON null)
GithubResponses ==
    {Err} \cup
    {[kind |-> "release", tag_name |-> t] :
        t \in VersionStrings \cup {WithV(s) : s \in VersionStrings} \cup {Empty, None}}

\* Go proxy @v/list: the lines of the body
ProxyLines == {WithV(s) : s \in VersionStrings} \cup {Empty, Garbage}

ProxyResponses ==
    {Err} \cup {[kind |-> "list", versions |-> l] : l \in SeqsUpTo(ProxyLines, MaxList)}

\* npm package document: dist-tags.latest (None: absent) and the versions keys
NpmResponses ==
    {Err} \cup
    {[kind |-> "doc", latest |-> t, versions |-> l] :
        t \in VersionStrings \cup {None},
        l \in SeqsUpTo(VersionStrings \cup {Garbage}, MaxList - 1)}

-----------------------------------------------------------------------------
(* Registry client, go-gin-generator *)

\* query_github_api_latest_release without its try/except
query_github_unguarded(resp) ==
    IF resp = Err \/ resp.tag_name = None THEN Raised
    ELSE IF resp.tag_name.v THEN StripV(resp.tag_name)
    ELSE resp.tag_name

query_github_api_latest_release(resp) ==
    IF resp = Err THEN None
    ELSE IF resp.tag_name = None THEN None   \* None.startswith raises, caught
    ELSE IF resp.tag_name.v THEN StripV(resp.tag_name)
    ELSE resp.tag_name

\* re.search(r'-(alpha|beta|rc|pre)', ver)
GoPreReleaseRe(s) == s.suffix \in {"-alpha", "-beta", "-rc", "-pre"}

query_go_module_version(resp) ==
    IF resp = Err THEN None
    ELSE LET kept == SelectSeq(resp.versions,
                               LAMBDA s : s # Empty /\ ~GoPreReleaseRe(s))
         IN  IF \E i \in 1..Len(kept) : ~Parseable(kept[i])
             THEN None                       \* InvalidVersion, caught
             ELSE IF kept # <<>> THEN str(max(MapParse(kept)))
             ELSE None

-----------------------------------------------------------------------------
(* Registry client, vue3-generator *)

\* re.search(r'-(alpha|beta|rc|pre|next)', latest_version)
NpmTagRe(s) == s.suffix \in {"-alpha", "-beta", "-rc", "-pre", "-next"}

\* re.search(r'-(alpha|beta|rc|pre|next|dev)', ver)
NpmVersionRe(s) == s.suffix \in RawMarkers

query_npm_latest_version(resp) ==
    IF resp = Err THEN None
    ELSE IF Truthy(resp.latest) /\ ~NpmTagRe(resp.latest) THEN resp.latest
    ELSE LET stable == SelectSeq(resp.versions,
                                 LAMBDA s : ~NpmVersionRe(s) /\ Parseable(s))
         IN  IF stable # <<>> THEN str(max(MapParse(stable))) ELSE None

-----------------------------------------------------------------------------
(* Version lookups, go-gin-generator/scripts/query_versions.py *)

\* the hardcoded Gin fallback "1.9.1"
GinDefault == Str(FALSE, <<1, 9, 1>>, "")

\* the hardcoded Go fallback "1.21.5"
GoDefault == Str(FALSE, <<1, 21, 5>>, "")

\* no try/except here: an exception of a query leaves the function
get_gin_framework_info(github, proxy) ==
    LET first == query_github_api_latest_release(github)
        latest_version == IF ~Truthy(first) THEN query_go_module_version(proxy)
                          ELSE first
    IN  IF latest_version = Raised THEN Raised
        ELSE IF Truthy(latest_version) THEN latest_version ELSE GinDefault

\* golang.org/dl/?mode=json: Err, or the version of the first stable item
\* (None: no stable item)
get_go_version_info(golang) ==
    IF golang = Err \/ golang = None THEN GoDefault ELSE golang

\* the dependencies table of get_common_dependency_versions, in its order
DepNames ==
    <<"gorm", "gorm-driver-postgres", "gorm-driver-mysql", "gorm-driver-sqlite",
      "viper", "logrus", "zap", "jwt", "validator", "swaggo", "gin-cors",
      "testify">>

DepNameSet == {DepNames[i] : i \in 1..Len(DepNames)}

ModulePathOf(name) ==
    CASE name = "gorm" -> "gorm.io/gorm"
      [] name = "gorm-driver-postgres" -> "gorm.io/driver/postgres"
      [] name = "gorm-driver-mysql" -> "gorm.io/driver/mysql"
      [] name = "gorm-driver-sqlite" -> "gorm.io/driver/sqlite"
      [] name = "viper" -> "github.com/spf13/viper"
      [] name = "logrus" -> "github.com/sirupsen/logrus"
      [] name = "zap" -> "go.uber.org/zap"
      [] name = "jwt" -> "github.com/golang-jwt/jwt"
      [] name = "validator" -> "github.com/go-playground/validator"
      [] name = "swaggo" -> "github.com/swaggo/swag"
      [] name = "gin-cors" -> "github.com/gin-contrib/cors"
      [] name = "testify" -> "github.com/stretchr/testify"
      [] OTHER -> "github.com/gin-gonic/gin"

\* "github_repo" in dep_info
HasGithubRepo(name) ==
    name \notin {"gorm-driver-postgres", "gorm-driver-mysql", "gorm-driver-sqlite"}

\* one iteration of the loop over the table
CommonDepVersion(name, github, proxy) ==
    LET latest_version == IF HasGithubRepo(name)
                          THEN query_github_api_latest_release(github)
                          ELSE query_go_module_version(proxy)
    IN  IF latest_version = Raised THEN Raised
        ELSE IF Truthy(latest_version) THEN latest_version ELSE Latest

\* world: what each registry source answers for each package during one call
get_common_dependency_versions(world) ==
    [n \in DepNameSet |-> CommonDepVersion(n, world.github[n], world.proxy[n])]

Packages == DepNameSet \cup {"gin"}

-----------------------------------------------------------------------------
(* Version lookups, vue3-generator/scripts/query_versions.py *)

\* dev_deps of get_dev_dependencies_info, in its order
DevDeps ==
    <<"@vitejs/plugin-vue", "@vue/tsconfig", "@rushstack/eslint-patch",
      "@vue/eslint-config-typescript", "@vue/eslint-config-prettier", "eslint",
      "eslint-plugin-vue", "prettier", "vitest", "@vue/test-utils", "jsdom",
      "typescript">>

DevDepSet == {DevDeps[i] : i \in 1..Len(DevDeps)}

\* fallbacks of get_dev_dependencies_info
DevFallback(dep) ==
    Str(FALSE,
        CASE dep = "@vitejs/plugin-vue" -> <<4, 5, 0>>
          [] dep = "@vue/tsconfig" -> <<0, 4, 0>>
          [] dep = "@rushstack/eslint-patch" -> <<1, 3, 0>>
          [] dep = "@vue/eslint-config-typescript" -> <<12, 0, 0>>
          [] dep = "@vue/eslint-config-prettier" -> <<8, 0, 0>>
          [] dep = "eslint" -> <<8, 50, 0>>
          [] dep = "eslint-plugin-vue" -> <<9, 17, 0>>
          [] dep = "prettier" -> <<3, 0, 0>>
          [] dep = "vitest" -> <<1, 0, 0>>
          [] dep = "@vue/test-utils" -> <<2, 4, 0>>
          [] dep = "jsdom" -> <<23, 0, 0>>
          [] OTHER -> <<5, 3, 0>>,
        "")

NoDevVersions == [d \in DevDepSet |-> None]

\* the second loop: a package without a version gets its fallback
ApplyDevFallbacks(versions) ==
    [d \in DevDepSet |-> IF ~Truthy(versions[d]) THEN DevFallback(d) ELSE versions[d]]

-----------------------------------------------------------------------------
(* Configuration.  A key missing from a section is "Absent"; booleans are  *)
(* written "True" / "False".                                               *)

Absent == "Absent"

\* dict.get(key, default)
Get(value, default) == IF value = Absent THEN default ELSE value

\* GoGinProjectGenerator._get_default_config, the keys the generator reads
DefaultConfig ==
    [project_type |-> "api",
     database |-> [enabled |-> "True", type |-> "postgres"],
     auth |-> [enabled |-> "True"],
     config |-> [type |-> "yaml"],
     logging |-> [library |-> "logrus"],
     validation |-> [enabled |-> "True"],
     cors |-> [enabled |-> "True"],
     docs |-> [type |-> "swagger", enabled |-> "True"],
     testing |-> [enhanced |-> "True"],
     metrics |-> [enabled |-> "False"],
     grpc |-> [enabled |-> "False"],
     cache |-> [enabled |-> "False", type |-> "redis"],
     message_queue |-> [enabled |-> "False", type |-> "rabbitmq"],
     rate_limiting |-> [enabled |-> "False"]]

ProjectTypes == {"api", "web", "microservice", "grpc"}

Flags == {"True", "False", Absent}

\* the values a configuration file may give a section
SectionValues(section) ==
    CASE section = "database" ->
            [enabled : Flags, type : {"postgres", "mysql", "sqlite", "oracle", Absent}]
      [] section = "config" -> [type : {"yaml", "yml", "json", Absent}]
      [] section = "logging" -> [library : {"logrus", "zap", "zerolog", Absent}]
      [] section = "docs" -> [type : {"swagger", "redoc", Absent}, enabled : Flags]
      [] section = "testing" -> [enhanced : Flags]
      [] section = "cache" -> [enabled : Flags, type : {"redis", "memcached", Absent}]
      [] section = "message_queue" ->
            [enabled : Flags, type : {"rabbitmq", "nats", "kafka", Absent}]
      [] OTHER -> [enabled : Flags]

SectionSeq ==
    <<"database", "auth", "config", "logging", "validation", "cors", "docs",
      "testing", "metrics", "grpc", "cache", "message_queue", "rate_limiting">>

-----------------------------------------------------------------------------
(* Resolver, go-gin-generator/scripts/setup_dependencies.py *)

\* Dependency(name, module_path): version None, category "general"
Dependency(name, module_path) ==
    [name |-> name, module_path |-> module_path, version |-> None,
     category |-> "general"]

Gorm == Dependency("gorm", "gorm.io/gorm")

\* DatabaseDeps with the postgres branch taken for every database type
DatabaseDepsPostgresOnly(cfg) ==
    IF Get(cfg.database.enabled, "False") = "True"
    THEN <<Gorm, Dependency("postgres", "gorm.io/driver/postgres")>>
    ELSE <<>>

DatabaseDeps(cfg) ==
    IF Get(cfg.database.enabled, "False") = "True"
    THEN LET db_type == Get(cfg.database.type, "postgres")
         IN  CASE db_type = "postgres" ->
                    <<Gorm, Dependency("postgres", "gorm.io/driver/postgres")>>
               [] db_type = "mysql" ->
                    <<Gorm, Dependency("mysql", "gorm.io/driver/mysql")>>
               [] db_type = "sqlite" ->
                    <<Gorm, Dependency("sqlite", "gorm.io/driver/sqlite")>>
               [] OTHER -> <<Gorm>>
    ELSE <<>>

\* AuthDeps testing the section instead of its flag: if config.get("auth", {})
AuthDepsSectionTruthy(cfg) ==
    IF cfg.auth.enabled # Absent
    THEN <<Dependency("jwt", "github.com/golang-jwt/jwt")>>
    ELSE <<>>

AuthDeps(cfg) ==
    IF Get(cfg.auth.enabled, "False") = "True"
    THEN <<Dependency("jwt", "github.com/golang-jwt/jwt")>>
    ELSE <<>>

ConfigDeps(cfg) ==
    IF Get(cfg.config.type, "yaml") \in {"yaml", "yml"}
    THEN <<Dependency("viper", "github.com/spf13/viper")>>
    ELSE <<>>

LoggingDeps(cfg) ==
    LET logging_config == Get(cfg.logging.library, "logrus")
    IN  CASE logging_config = "logrus" ->
                <<Dependency("logrus", "github.com/sirupsen/logrus")>>
          [] logging_config = "zap" -> <<Dependency("zap", "go.uber.org/zap")>>
          [] OTHER -> <<>>

ValidationDeps(cfg) ==
    IF Get(cfg.validation.enabled, "True") = "True"
    THEN <<Dependency("validator", "github.com/go-playground/validator")>>
    ELSE <<>>

CorsDeps(cfg) ==
    IF Get(cfg.cors.enabled, "True") = "True"
    THEN <<Dependency("cors", "github.com/gin-contrib/cors")>>
    ELSE <<>>

DocsDeps(cfg) ==
    IF Get(cfg.docs.type, "swagger") = "swagger"
    THEN <<Dependency("swaggo", "github.com/swaggo/swag"),
           Dependency("swaggo-gin", "github.com/swaggo/gin-swagger"),
           Dependency("swaggo-files", "github.com/swaggo/files")>>
    ELSE <<>>

TestingDeps(cfg) ==
    IF Get(cfg.testing.enhanced, "False") = "True"
    THEN <<Dependency("testify", "github.com/stretchr/testify")>>
    ELSE <<>>

MetricsDeps(cfg) ==
    IF Get(cfg.metrics.enabled, "False") = "True"
    THEN <<Dependency("prometheus", "github.com/prometheus/client_golang"),
           Dependency("gin-prometheus", "github.com/zsais/go-gin-prometheus")>>
    ELSE <<>>

RateLimitingDeps(cfg) ==
    IF Get(cfg.rate_limiting.enabled, "False") = "True"
    THEN <<Dependency("goredis", "github.com/go-redis/redis/v8"),
           Dependency("rate-limit", "golang.org/x/time/rate")>>
    ELSE <<>>

CacheDeps(cfg) ==
    IF Get(cfg.cache.enabled, "False") = "True"
           /\ Get(cfg.cache.type, "redis") = "redis"
    THEN <<Dependency("goredis", "github.com/go-redis/redis/v8")>>
    ELSE <<>>

MessageQueueDeps(cfg) ==
    IF Get(cfg.message_queue.enabled, "False") = "True"
    THEN LET mq_type == Get(cfg.message_queue.type, "rabbitmq")
         IN  CASE mq_type = "rabbitmq" ->
                    <<Dependency("streadway-amqp", "github.com/streadway/amqp")>>
               [] mq_type = "nats" ->
                    <<Dependency("nats", "github.com/nats-io/nats.go")>>
               [] OTHER -> <<>>
    ELSE <<>>

GrpcDeps(cfg) ==
    IF Get(cfg.grpc.enabled, "False") = "True"
    THEN <<Dependency("grpc", "google.golang.org/grpc"),
           Dependency("grpc-gateway", "github.com/grpc-ecosystem/grpc-gateway/v2"),
           Dependency("protoc-gen-go", "google.golang.org/protobuf/cmd/protoc-gen-go"),
           Dependency("protoc-gen-go-grpc",
                      "google.golang.org/grpc/cmd/protoc-gen-go-grpc")>>
    ELSE <<>>

\* the list before versions are attached, in the order the code appends
SelectedDeps(cfg) ==
    DatabaseDeps(cfg) \o AuthDeps(cfg) \o ConfigDeps(cfg) \o LoggingDeps(cfg)
        \o ValidationDeps(cfg) \o CorsDeps(cfg) \o DocsDeps(cfg)
        \o TestingDeps(cfg) \o MetricsDeps(cfg) \o RateLimitingDeps(cfg)
        \o CacheDeps(cfg) \o MessageQueueDeps(cfg) \o GrpcDeps(cfg)

\* for dep in dependencies: if dep.module_path in common_deps: dep.version = ...
\* (common is keyed by the names of the table)
AttachVersion(dep, common) ==
    IF dep.module_path \in DOMAIN common
    THEN [dep EXCEPT !.version = common[dep.module_path]]
    ELSE dep

\* the resolver leaving out the dependencies whose table entry got no version
\* from the registry
ResolveVersionedOnly(cfg, common) ==
    LET selected == SelectedDeps(cfg)
        kept == SelectSeq(selected,
                          LAMBDA d : d.name \in DOMAIN common => common[d.name] # Latest)
    IN  [i \in 1..Len(kept) |-> AttachVersion(kept[i], common)]

_get_dependencies_for_config(cfg, common) ==
    LET selected == SelectedDeps(cfg)
    IN  [i \in 1..Len(selected) |-> AttachVersion(selected[i], common)]

-----------------------------------------------------------------------------
(* Registry worlds of the generator run: every package gets the same       *)
(* answer from a source.                                                   *)

StableTag == [kind |-> "release", tag_name |-> WithV(Str(FALSE, <<2, 1, 0>>, ""))]

StableList ==
    [kind |-> "list",
     versions |-> <<WithV(Str(FALSE, <<2, 1, 0>>, "")),
                    WithV(Str(FALSE, <<2, 2, 0>>, "-beta")),
                    WithV(Str(FALSE, <<2, 0, 9>>, ""))>>]

UniformWorld(github, proxy, golang) ==
    [github |-> [p \in Packages |-> github],
     proxy |-> [p \in Packages |-> proxy],
     golang |-> golang]

Worlds ==
    {UniformWorld(Err, Err, Err),
     UniformWorld(StableTag, Err, Err),
     UniformWorld(Err, StableList, Err),
     UniformWorld(StableTag, StableList, Str(FALSE, <<1, 22, 0>>, ""))}

\* what the three lookups return in each world
RegistryAnswers ==
    [w \in Worlds |->
        [go_info |-> get_go_version_info(w.golang),
         gin_version |-> get_gin_framework_info(w.github["gin"], w.proxy["gin"]),
         common |-> get_common_dependency_versions(w)]]

ModulePath == "github.com/username/app"

-----------------------------------------------------------------------------
(* go.mod synthesis, GoDependencyManager.generate_go_mod_content *)

Line(kind, path, version) == [kind |-> kind, path |-> path, version |-> version]

Blank == Line("blank", "", None)

\* f"\t{dep.module_path} v{dep.version}" or f"\t{dep.module_path}"
DepLine(dep) ==
    IF Truthy(dep.version) /\ dep.version # Latest
    THEN Line("entry", dep.module_path, WithV(dep.version))
    ELSE Line("entry", dep.module_path, None)

generate_go_mod_content(module_path, cfg, world) ==
    LET go_info == RegistryAnswers[world].go_info
        gin_version == RegistryAnswers[world].gin_version
        deps == _get_dependencies_for_config(cfg, RegistryAnswers[world].common)
    IN  <<Line("module", module_path, None), Blank,
          Line("go", "", go_info), Blank,
          Line("require (", "", None),
          Line("entry", ModulePathOf("gin"), WithV(gin_version))>>
            \o [i \in 1..Len(deps) |-> DepLine(deps[i])]
            \o <<Line(")", "", None), Blank>>

-----------------------------------------------------------------------------
(* Building the configuration, go-gin-generator/scripts/init_project.py *)

\* the configurations merged_config.update(file) yields for the files that
\* give at most budget of the sections i, i+1, ...: each section of the file
\* replaces the default one
RECURSIVE MergedFrom(_, _, _)
MergedFrom(cfg, i, budget) ==
    IF i > Len(SectionSeq) \/ budget = 0 THEN {cfg}
    ELSE MergedFrom(cfg, i + 1, budget)
            \cup UNION {MergedFrom([cfg EXCEPT ![SectionSeq[i]] = v], i + 1, budget - 1) :
                          v \in SectionValues(SectionSeq[i])}

MergedConfigs(n) == MergedFrom(DefaultConfig, 1, n)

\* what the user types at the prompts
Answers ==
    [project_type : ProjectTypes, db_enabled : {"", "n"},
     db_type : {"", "mysql", "sqlite"}, auth_enabled : {"", "n"},
     advanced : {"", "y"}, logging_lib : {"", "zap"}, docs_type : {"", "none"},
     testing : {"", "n"}, metrics : {"", "n"}]

_configure_advanced_options(cfg, a) ==
    [cfg EXCEPT
        !.logging.library = IF a.logging_lib = "zap" THEN "zap" ELSE @,
        !.docs.enabled = IF a.docs_type = "none" THEN "False" ELSE @,
        !.testing.enhanced = IF a.testing = "n" THEN "False" ELSE @,
        !.metrics.enabled =
            IF cfg.project_type = "microservice" /\ a.metrics # "n" THEN "True" ELSE @,
        !.grpc.enabled = IF cfg.project_type = "grpc" THEN "True" ELSE @]

\* get_user_input on a generator whose default_config is defaults:
\* config = self.default_config.copy(), then the answers
user_input(defaults, a) ==
    LET basic ==
            [defaults EXCEPT
                !.project_type = a.project_type,
                !.database.enabled = IF a.db_enabled # "n" THEN "True" ELSE "False",
                !.database.type =
                    IF a.db_enabled # "n" /\ a.db_type \in {"mysql", "sqlite"}
                    THEN a.db_type ELSE @,
                !.auth.enabled = IF a.auth_enabled # "n" THEN "True" ELSE "False"]
    IN  IF a.advanced = "y" THEN _configure_advanced_options(basic, a) ELSE basic

get_user_input(a) == user_input(DefaultConfig, a)

\* default_config after a configuration was built from its dict.copy(): the
\* copy has its own top-level keys and shares every section dictionary
SharedSections(defaults, built) ==
    [built EXCEPT !.project_type = defaults.project_type]

-----------------------------------------------------------------------------
(* The generator run *)

NoVersions == [n \in DepNameSet |-> None]

\* the directory the process is started in
Home == <<"home", "user">>

\* no go.mod in the project directory
NoFile == [origin |-> "absent", requires |-> <<>>]

\* a go.mod that was in the project directory before the run
ExistingFile == [origin |-> "user", requires |-> <<"example.com/kept">>]

\* self.go_mod_path.write_text(content): the file holds the text's entries
write_text(lines) ==
    LET entries == SelectSeq(lines, LAMBDA l : l.kind = "entry")
    IN  [origin |-> "write_text",
         requires |-> [i \in 1..Len(entries) |-> entries[i].path]]

\* nothing of the dependency setup or of a generator run has happened
NothingRun ==
    /\ deps_to_add = <<>>
    /\ go_mod_path = NoFile
    /\ log = <<>>
    /\ project_name = None
    /\ config_module_path = None
    /\ tools = {}
    /\ package_manager = None
    /\ package_json_path = FALSE
    /\ cwd = Home
    /\ dirs = {}
    /\ default_config = DefaultConfig

Init ==
    /\ pc = "start"
    /\ config = DefaultConfig
    /\ common_deps = NoVersions
    /\ gin_info = None
    /\ dependencies = <<>>
    /\ go_mod = <<>>
    /\ fn = "none"
    /\ response = Err
    /\ result = None
    /\ idx = 0
    /\ queried = {}
    /\ registry = UniformWorld(Err, Err, Err)
    /\ dev_dependencies = NoDevVersions
    /\ NothingRun

\* main(): config = generator.default_config.copy() with the arguments' type
UseCommandLine ==
    /\ pc = "start"
    /\ \E t \in ProjectTypes : config' = [DefaultConfig EXCEPT !.project_type = t]
    /\ pc' = "configured"
    /\ UNCHANGED <<common_deps, gin_info, dependencies, go_mod, fn, response,
                   result, idx, queried, registry,
                   dev_dependencies, runVars>>

\* main(): load_config_from_file, then the arguments' type unless it is "api"
LoadConfigFile ==
    /\ pc = "start"
    /\ \E c \in MergedConfigs(MaxFileSections), t \in ProjectTypes :
          config' = IF t # "api" THEN [c EXCEPT !.project_type = t] ELSE c
    /\ pc' = "configured"
    /\ UNCHANGED <<common_deps, gin_info, dependencies, go_mod, fn, response,
                   result, idx, queried, registry,
                   dev_dependencies, runVars>>

\* main(): generator.get_user_input()
GetUserInput ==
    /\ pc = "start"
    /\ \E a \in Answers : config' = user_input(default_config, a)
    /\ default_config' = SharedSections(default_config, config')
    /\ pc' = "configured"
    /\ UNCHANGED <<common_deps, gin_info, dependencies, go_mod, fn, response,
                   result, idx, queried, registry,
                   dev_dependencies, runRest>>

\* create_go_mod_from_config: the registries are queried, the dependency list
\* is resolved and the go.mod text is synthesized from it
CreateGoModFromConfig ==
    /\ pc = "configured"
    /\ \E w \in Worlds :
          /\ gin_info' = RegistryAnswers[w].gin_version
          /\ common_deps' = RegistryAnswers[w].common
          /\ dependencies' =
                _get_dependencies_for_config(config, RegistryAnswers[w].common)
          /\ go_mod' = generate_go_mod_content(ModulePath, config, w)
          /\ registry' = w
    /\ go_mod_path' = write_text(go_mod')
    /\ pc' = "synthesized"
    /\ UNCHANGED <<config, fn, response, result, idx, queried, dev_dependencies,
                   deps_to_add, log, project_name, config_module_path, tools,
                   package_manager, package_json_path, cwd, dirs, default_config>>

Next ==
    \/ UseCommandLine
    \/ LoadConfigFile
    \/ GetUserInput
    \/ CreateGoModFromConfig

Spec == Init /\ [][Next]_vars

-----------------------------------------------------------------------------
(* Properties of the generator run *)

Resolved == pc = "synthesized"

\* module paths of the resolved list
Identifiers == {dependencies[i].module_path : i \in 1..Len(dependencies)}

Selects(path) == path \in Identifiers

\* a concrete version: not None, not "", not the "latest" sentinel
IsConcrete(s) == s.kind = "str" /\ s.core # <<>>

\* C1: every resolved dependency whose package got a version from the
\* registry lookup carries that version when it is handed on
C1_VersionPinned ==
    Resolved =>
        \A i \in 1..Len(dependencies) : \A n \in DepNameSet :
            (ModulePathOf(n) = dependencies[i].module_path /\ IsConcrete(common_deps[n]))
                => dependencies[i].version = common_deps[n]

AllSourcesFail ==
    /\ \A p \in Packages : registry.github[p] = Err /\ registry.proxy[p] = Err
    /\ registry.golang = Err

\* C2: with the primary and the secondary source both failing, every resolved
\* version is a hardcoded default version, never empty or absent
C2_TotalFailureDefault ==
    (Resolved /\ AllSourcesFail) =>
        /\ gin_info = GinDefault
        /\ \A n \in DepNameSet : IsConcrete(common_deps[n])
        /\ \A i \in 1..Len(dependencies) : IsConcrete(dependencies[i].version)

\* C3: when the primary source gives no usable version and the secondary does,
\* the secondary's version is the result, for Gin and every table entry
C3_FallbackChain ==
    Resolved =>
        /\ (~Truthy(query_github_api_latest_release(registry.github["gin"]))
                /\ Truthy(query_go_module_version(registry.proxy["gin"])))
              => gin_info = query_go_module_version(registry.proxy["gin"])
        /\ \A n \in DepNameSet :
              (~Truthy(query_github_api_latest_release(registry.github[n]))
                  /\ Truthy(query_go_module_version(registry.proxy[n])))
                => common_deps[n] = query_go_module_version(registry.proxy[n])

\* C6: the resolved list holds each module path at most once
C6_NoDuplicateIdentifier ==
    Resolved =>
        \A i, j \in 1..Len(dependencies) :
            i # j => dependencies[i].module_path # dependencies[j].module_path

EntryLinesFor(path) ==
    {k \in 1..Len(go_mod) : go_mod[k].kind = "entry" /\ go_mod[k].path = path}

\* C7: the synthesized go.mod declares each identifier of the resolved list on
\* exactly one line
C7_OneLinePerIdentifier ==
    Resolved => \A path \in Identifiers : Cardinality(EntryLinesFor(path)) = 1

\* a value that is given and is none of the known choices
Unknown(value, known) == value # Absent /\ value \notin known

DatabaseFamily ==
    {"gorm.io/gorm", "gorm.io/driver/postgres", "gorm.io/driver/mysql",
     "gorm.io/driver/sqlite"}

RedisClient == "github.com/go-redis/redis/v8"

SwaggerFamily ==
    {"github.com/swaggo/swag", "github.com/swaggo/gin-swagger",
     "github.com/swaggo/files"}

MessageQueueFamily == {"github.com/streadway/amqp", "github.com/nats-io/nats.go"}

GrpcFamily ==
    {"google.golang.org/grpc", "github.com/grpc-ecosystem/grpc-gateway/v2",
     "google.golang.org/protobuf/cmd/protoc-gen-go",
     "google.golang.org/grpc/cmd/protoc-gen-go-grpc"}

MetricsFamily ==
    {"github.com/prometheus/client_golang", "github.com/zsais/go-gin-prometheus"}

\* C8: a choice toggle whose value is none of the known choices adds no
\* dependency at all for its feature
C8_UnknownChoiceAddsNothing ==
    Resolved =>
        /\ Unknown(config.database.type, {"postgres", "mysql", "sqlite"})
              => Identifiers \cap DatabaseFamily = {}
        /\ Unknown(config.logging.library, {"logrus", "zap"})
              => Identifiers \cap {"github.com/sirupsen/logrus", "go.uber.org/zap"} = {}
        /\ Unknown(config.config.type, {"yaml", "yml"})
              => ~Selects("github.com/spf13/viper")
        /\ Unknown(config.docs.type, {"swagger"})
              => Identifiers \cap SwaggerFamily = {}
        /\ (Unknown(config.cache.type, {"redis"})
                /\ config.rate_limiting.enabled # "True")
              => ~Selects(RedisClient)
        /\ Unknown(config.message_queue.type, {"rabbitmq", "nats"})
              => Identifiers \cap MessageQueueFamily = {}

\* C9: a disabled toggle leaves no dependency that only it selects
C9_DisabledAddsNothing ==
    Resolved =>
        /\ config.database.enabled = "False" => Identifiers \cap DatabaseFamily = {}
        /\ config.auth.enabled = "False" => ~Selects("github.com/golang-jwt/jwt")
        /\ config.validation.enabled = "False"
              => ~Selects("github.com/go-playground/validator")
        /\ config.cors.enabled = "False" => ~Selects("github.com/gin-contrib/cors")
        /\ config.docs.enabled = "False" => Identifiers \cap SwaggerFamily = {}
        /\ config.testing.enhanced = "False" => ~Selects("github.com/stretchr/testify")
        /\ config.metrics.enabled = "False" => Identifiers \cap MetricsFamily = {}
        /\ config.rate_limiting.enabled = "False" => ~Selects("golang.org/x/time/rate")
        /\ (config.rate_limiting.enabled = "False" /\ config.cache.enabled = "False")
              => ~Selects(RedisClient)
        /\ config.message_queue.enabled = "False"
              => Identifiers \cap MessageQueueFamily = {}
        /\ config.grpc.enabled = "False" => Identifiers \cap GrpcFamily = {}

\* C10: with auth.enabled = false the resolved list holds no token library,
\* whatever the other toggles are
C10_NoAuthEntryWhenDisabled ==
    (Resolved /\ config.auth.enabled = "False")
        => ~Selects("github.com/golang-jwt/jwt")

\* auth is off while testing and the database are on, and the list is resolved
C10_Witness ==
    /\ Resolved
    /\ config.auth.enabled = "False"
    /\ config.testing.enhanced = "True"
    /\ Selects("github.com/stretchr/testify")
    /\ Selects("gorm.io/gorm")

DatabaseTypes == {"postgres", "mysql", "sqlite"}

DriverOf(d) ==
    CASE d = "postgres" -> "gorm.io/driver/postgres"
      [] d = "mysql" -> "gorm.io/driver/mysql"
      [] OTHER -> "gorm.io/driver/sqlite"

\* how often the resolved list holds the module path
Occurrences(path) ==
    Cardinality({i \in 1..Len(dependencies) : dependencies[i].module_path = path})

\* C11: with the database enabled and its type one of postgres, mysql, sqlite,
\* the resolved list holds gorm.io/gorm exactly once, the driver of that type
\* exactly once and no driver of the two other types
C11_DatabaseFamily ==
    \A d \in DatabaseTypes :
        (Resolved /\ config.database.enabled = "True" /\ config.database.type = d)
            => /\ Occurrences("gorm.io/gorm") = 1
               /\ Occurrences(DriverOf(d)) = 1
               /\ \A o \in DatabaseTypes \ {d} : Occurrences(DriverOf(o)) = 0

\* a mysql configuration is resolved, with other features on beside it
C11_Witness ==
    /\ Resolved
    /\ config.database.enabled = "True"
    /\ config.database.type = "mysql"
    /\ Occurrences("gorm.io/driver/mysql") = 1
    /\ Selects("github.com/golang-jwt/jwt")

\* the catalog consulted for versions has an entry for the module path: as a
\* key of the table, or as the module_path of one of its entries
CatalogHas(path) ==
    \/ path \in DOMAIN common_deps
    \/ \E n \in DepNameSet : ModulePathOf(n) = path

\* C13: every dependency the resolver selects has an entry in the table of
\* get_common_dependency_versions
C13_CatalogTotal ==
    Resolved => \A i \in 1..Len(dependencies) : CatalogHas(dependencies[i].module_path)

Categories == {"production", "development"}

\* C14: every resolved dependency has the category production or development,
\* and no development dependency stands before a production dependency
C14_ProductionBeforeDevelopment ==
    Resolved =>
        /\ \A i \in 1..Len(dependencies) : dependencies[i].category \in Categories
        /\ \A i, j \in 1..Len(dependencies) :
              (dependencies[i].category = "development"
                  /\ dependencies[j].category = "production") => j < i
        /\ \A i, j \in 1..Len(dependencies) :
              (dependencies[i].module_path = "github.com/stretchr/testify"
                  /\ dependencies[j].module_path \in
                        MetricsFamily \cup GrpcFamily \cup {RedisClient}) => j < i

\* C25: every default field a configuration file does not mention keeps its
\* default in the merged configuration, also inside a section the file
\* overrides only partly
C25_NestedDefaultsKept ==
    pc = "configured" =>
        \A i \in 1..Len(SectionSeq) :
            \A k \in DOMAIN config[SectionSeq[i]] :
                config[SectionSeq[i]][k] # Absent

\* C26: building a configuration leaves generator.default_config equal to
\* what _get_default_config returns
C26_DefaultsUnchanged == default_config = DefaultConfig

\* C27: a run with project type grpc hands dependency setup a configuration
\* with grpc.enabled true, and the resolved list holds the gRPC packages,
\* whichever way the configuration was built
C27_GrpcTypeDrivesDependencies ==
    (pc = "synthesized" /\ config.project_type = "grpc") =>
        /\ config.grpc.enabled = "True"
        /\ \E i \in 1..Len(dependencies) :
              dependencies[i].module_path = "google.golang.org/grpc"

-----------------------------------------------------------------------------
(* The registry client functions on every response *)

\* one call of a registry client function, on any response
InitQuery ==
    /\ pc = "call"
    /\ config = DefaultConfig
    /\ common_deps = NoVersions
    /\ gin_info = None
    /\ dependencies = <<>>
    /\ go_mod = <<>>
    /\ fn = "none"
    /\ response = Err
    /\ result = None
    /\ idx = 0
    /\ queried = {}
    /\ registry = UniformWorld(Err, Err, Err)
    /\ dev_dependencies = NoDevVersions
    /\ NothingRun

CallGithub ==
    /\ pc = "call"
    /\ \E r \in GithubResponses :
          /\ response' = r
          /\ result' = query_github_api_latest_release(r)
    /\ fn' = "query_github_api_latest_release"
    /\ pc' = "returned"
    /\ UNCHANGED <<config, common_deps, gin_info, dependencies, go_mod, idx,
                   queried, registry, dev_dependencies, runVars>>

CallGoProxy ==
    /\ pc = "call"
    /\ \E r \in ProxyResponses :
          /\ response' = r
          /\ result' = query_go_module_version(r)
    /\ fn' = "query_go_module_version"
    /\ pc' = "returned"
    /\ UNCHANGED <<config, common_deps, gin_info, dependencies, go_mod, idx,
                   queried, registry, dev_dependencies, runVars>>

CallNpm ==
    /\ pc = "call"
    /\ \E r \in NpmResponses :
          /\ response' = r
          /\ result' = query_npm_latest_version(r)
    /\ fn' = "query_npm_latest_version"
    /\ pc' = "returned"
    /\ UNCHANGED <<config, common_deps, gin_info, dependencies, go_mod, idx,
                   queried, registry, dev_dependencies, runVars>>

NextQuery ==
    \/ CallGithub
    \/ CallGoProxy
    \/ CallNpm

SpecQuery == InitQuery /\ [][NextQuery]_vars

\* C4: the version a registry client function returns carries none of the
\* markers alpha, beta, rc, pre, dev, next
C4_NoPreReleaseSelected == pc = "returned" => ~HasMarker(result)

\* positions of the listed versions that carry no pre-release marker
ListedStable(l) == {i \in 1..Len(l) : l[i].core # <<>> /\ l[i].suffix = ""}

\* the greatest of them under major.minor.patch ordering, written without 'v'
MaxStable(l) ==
    LET i == CHOOSE i \in ListedStable(l) :
                 \A j \in ListedStable(l) : ~CoreLess(l[i].core, l[j].core)
    IN  Str(FALSE, l[i].core, "")

\* the secondary source answered with a list of version strings: the Go proxy
\* list, or the npm versions map when dist-tags.latest is absent or a
\* pre-release
SecondaryListed ==
    /\ pc = "returned"
    /\ response # Err
    /\ \/ fn = "query_go_module_version"
       \/ /\ fn = "query_npm_latest_version"
          /\ response.latest = None \/ HasMarker(response.latest)
    /\ \A i \in 1..Len(response.versions) : response.versions[i].core # <<>>

\* C23: from a list of version strings the client returns the greatest listed
\* version without a pre-release marker, and None only when no listed version
\* is stable
C23_LatestStableFromList ==
    SecondaryListed =>
        result = IF ListedStable(response.versions) = {} THEN None
                 ELSE MaxStable(response.versions)

-----------------------------------------------------------------------------
(* The registry passes, one query after the other *)

\* what a source answers during a pass
PassGithub == {Err, StableTag}
PassProxy == {Err, StableList}

StableDoc ==
    [kind |-> "doc", latest |-> Str(FALSE, <<2, 1, 0>>, ""), versions |-> <<>>]

PassNpm == {Err, StableDoc}

NothingAsked ==
    [github |-> [p \in Packages |-> NotAsked],
     proxy |-> [p \in Packages |-> NotAsked],
     npm |-> [d \in DevDepSet |-> NotAsked]]

InitRegistry ==
    /\ pc \in {"gin", "dev"}
    /\ config = DefaultConfig
    /\ common_deps = NoVersions
    /\ gin_info = None
    /\ dependencies = <<>>
    /\ go_mod = <<>>
    /\ fn = "none"
    /\ response = Err
    /\ result = None
    /\ idx = 1
    /\ queried = {}
    /\ registry = NothingAsked
    /\ dev_dependencies = NoDevVersions
    /\ NothingRun

\* get_gin_framework_info(): the proxy is asked only when GitHub gave nothing
QueryGin ==
    /\ pc = "gin"
    /\ \E g \in PassGithub, p \in PassProxy :
          LET asked == ~Truthy(query_github_api_latest_release(g))
              version == get_gin_framework_info(g, p)
          IN  /\ registry' = [registry EXCEPT
                                !.github["gin"] = g,
                                !.proxy["gin"] = IF asked THEN p ELSE NotAsked]
              /\ IF version = Raised
                 THEN pc' = "raised" /\ UNCHANGED <<gin_info, queried>>
                 ELSE /\ gin_info' = version
                      /\ queried' = queried \cup {"gin"}
                      /\ pc' = "table"
    /\ UNCHANGED <<config, common_deps, dependencies, go_mod, fn, response,
                   result, idx, dev_dependencies, runVars>>

\* one iteration of the loop of get_common_dependency_versions()
QueryTableEntry ==
    /\ pc = "table"
    /\ LET name == DepNames[idx]
       IN  \E r \in IF HasGithubRepo(name) THEN PassGithub ELSE PassProxy :
              LET g == IF HasGithubRepo(name) THEN r ELSE NotAsked
                  p == IF HasGithubRepo(name) THEN NotAsked ELSE r
                  version == CommonDepVersion(name, g, p)
              IN  /\ registry' = [registry EXCEPT !.github[name] = g,
                                                  !.proxy[name] = p]
                  /\ IF version = Raised
                     THEN pc' = "raised" /\ UNCHANGED <<common_deps, queried, idx>>
                     ELSE /\ common_deps' = [common_deps EXCEPT ![name] = version]
                          /\ queried' = queried \cup {name}
                          /\ idx' = idx + 1
                          /\ pc' = IF idx = Len(DepNames) THEN "done" ELSE "table"
    /\ UNCHANGED <<config, gin_info, dependencies, go_mod, fn, response, result,
                   dev_dependencies, runVars>>

\* one iteration of the first loop of get_dev_dependencies_info(); the last
\* one is followed by the fallback loop
QueryDevEntry ==
    /\ pc = "dev"
    /\ LET dep == DevDeps[idx]
       IN  \E r \in PassNpm :
              LET ver == query_npm_latest_version(r)
                  versions == [dev_dependencies EXCEPT ![dep] = ver]
              IN  /\ registry' = [registry EXCEPT !.npm[dep] = r]
                  /\ queried' = queried \cup {dep}
                  /\ idx' = idx + 1
                  /\ IF idx = Len(DevDeps)
                     THEN /\ dev_dependencies' = ApplyDevFallbacks(versions)
                          /\ pc' = "done"
                     ELSE /\ dev_dependencies' = versions
                          /\ pc' = "dev"
    /\ UNCHANGED <<config, common_deps, gin_info, dependencies, go_mod, fn,
                   response, result, runVars>>

NextRegistry ==
    \/ QueryGin
    \/ QueryTableEntry
    \/ QueryDevEntry

SpecRegistry == InitRegistry /\ [][NextRegistry]_vars

\* the query of package p failed during the pass
QueryFailed(p) ==
    \/ p \in Packages /\ Err \in {registry.github[p], registry.proxy[p]}
    \/ p \in DevDepSet /\ registry.npm[p] = Err

\* C5: a failing registry query never raises, so the pass is never left
\* early: every package of the pass is still queried, and a package whose own
\* query succeeded keeps the version it was given
C5_FailuresNeverStopSiblings ==
    /\ pc # "raised"
    /\ pc = "done" => queried \in {Packages, DevDepSet}
    /\ \A n \in queried \cap DepNameSet :
          ~QueryFailed(n) => common_deps[n] = Str(FALSE, <<2, 1, 0>>, "")
    /\ \A d \in queried \cap DevDepSet :
          ~QueryFailed(d) => dev_dependencies[d] = Str(FALSE, <<2, 1, 0>>, "")

\* the first queries of a pass failed and the ones after them went through
C5_Witness ==
    /\ pc = "done"
    /\ QueryFailed("gin")
    /\ QueryFailed("gorm")
    /\ ~QueryFailed("testify")
    /\ IsConcrete(common_deps["testify"])

-----------------------------------------------------------------------------
(* Child processes *)

\* how a child process ends: exit code 0, a non-zero exit code, no such
\* binary, or not at all
ChildOutcomes == {"exit 0", "exit 1", "not found", "never exits"}

\* GoDependencyManager._run_go_command: what its caller gets.  subprocess.run
\* is given no timeout, so the call lasts as long as the child does
_run_go_command(outcome, check) ==
    CASE outcome = "exit 0" -> "returned"
      [] outcome = "exit 1" -> IF check THEN "CalledProcessError" ELSE "returned"
      [] outcome = "not found" -> "RuntimeError"
      [] OTHER -> "no return"

\* run_command without its last handler, except Exception
run_command_unguarded(outcome) ==
    CASE outcome = "exit 0" -> "True"
      [] outcome = "not found" -> "raised"
      [] OTHER -> "False"

\* check_environment.run_command: success, after timeout seconds at the latest
\* (TimeoutExpired, CalledProcessError and every other Exception give False)
run_command(outcome) == IF outcome = "exit 0" THEN "True" ELSE "False"

\* one child process of the run: the command, what it was given, how the
\* child ended and what the caller got
Child(cmd, target, outcome, got) ==
    [cmd |-> cmd, target |-> target, outcome |-> outcome, got |-> got]

\* where the run goes after a go command
AfterGo(got, next) ==
    CASE got = "returned" -> next
      [] got = "no return" -> "waiting"     \* still inside subprocess.run
      [] OTHER -> "raised"                  \* the exception leaves the caller

-----------------------------------------------------------------------------
(* GoDependencyManager.setup_project_deps, step by step *)

\* configurations of a file that overrides at most one section
SetupConfigs ==
    {DefaultConfig} \cup
    UNION {{[DefaultConfig EXCEPT ![SectionSeq[i]] = v] :
                v \in SectionValues(SectionSeq[i])} : i \in 1..Len(SectionSeq)}

InitSetup ==
    /\ pc = "setup"
    /\ config \in SetupConfigs
    /\ common_deps = NoVersions
    /\ gin_info = None
    /\ dependencies = <<>>
    /\ go_mod = <<>>
    /\ fn = "none"
    /\ response = Err
    /\ result = None
    /\ idx = 1
    /\ queried = {}
    /\ registry = UniformWorld(Err, Err, Err)
    /\ dev_dependencies = NoDevVersions
    /\ deps_to_add = <<>>
    /\ go_mod_path \in {NoFile, ExistingFile}
    /\ log = <<>>
    /\ project_name = None
    /\ config_module_path = None
    /\ tools = {}
    /\ package_manager = None
    /\ package_json_path = FALSE
    /\ cwd = Home
    /\ dirs = {}
    /\ default_config = DefaultConfig

\* the variables no step of the dependency setup changes
setupFixed ==
    <<config, fn, response, queried, dev_dependencies, project_name,
      config_module_path, tools, package_manager, package_json_path, cwd, dirs,
      default_config>>

\* init_module: go mod init, unless go.mod exists
InitModule ==
    /\ pc = "setup"
    /\ IF go_mod_path # NoFile
       THEN pc' = "configured" /\ UNCHANGED <<go_mod_path, log>>
       ELSE \E o \in ChildOutcomes :
              LET got == _run_go_command(o, TRUE)
              IN  /\ log' = Append(log, Child("go mod init", ModulePath, o, got))
                  /\ go_mod_path' =
                        IF got = "returned"
                        THEN [origin |-> "go mod init", requires |-> <<>>]
                        ELSE go_mod_path
                  /\ pc' = AfterGo(got, "configured")
    /\ UNCHANGED <<common_deps, gin_info, dependencies, go_mod, result, idx,
                   registry, deps_to_add, setupFixed>>

\* f"{module_path}@{version}" with the 'v' put in front, or the bare path
GoGetTarget(path, version) ==
    [path |-> path,
     version |-> IF Truthy(version) THEN WithV(version) ELSE None]

\* go get adds the module to the require block
AfterGoGet(file, path, got) ==
    IF got = "returned"
    THEN [file EXCEPT !.requires = Append(@, path)]
    ELSE file

\* setup_gin_project up to its loop: init_module finds go.mod in place, the
\* registries are asked again, Gin is added and the list is resolved
AddGin ==
    /\ pc = "synthesized"
    /\ \E w \in Worlds, o \in ChildOutcomes :
          LET got == _run_go_command(o, TRUE)
              path == ModulePathOf("gin")
          IN  /\ gin_info' = RegistryAnswers[w].gin_version
              /\ registry' = w
              /\ log' = Append(log, Child("go get", GoGetTarget(path, None), o, got))
              /\ go_mod_path' = AfterGoGet(go_mod_path, path, got)
              /\ deps_to_add' =
                    IF got = "returned"
                    THEN _get_dependencies_for_config(config, RegistryAnswers[w].common)
                    ELSE deps_to_add
              /\ pc' = AfterGo(got, IF got = "returned" /\ deps_to_add' # <<>>
                                    THEN "add" ELSE "tidy")
    /\ UNCHANGED <<common_deps, dependencies, go_mod, result, idx, setupFixed>>

\* one iteration of: for dep in deps_to_add: self.add_dependency(...)
AddDependency ==
    /\ pc = "add"
    /\ \E o \in ChildOutcomes :
          LET dep == deps_to_add[idx]
              got == _run_go_command(o, TRUE)
          IN  /\ log' = Append(log, Child("go get",
                                         GoGetTarget(dep.module_path, dep.version),
                                         o, got))
              /\ go_mod_path' = AfterGoGet(go_mod_path, dep.module_path, got)
              /\ idx' = IF got = "returned" THEN idx + 1 ELSE idx
              /\ pc' = AfterGo(got, IF idx = Len(deps_to_add) THEN "tidy" ELSE "add")
    /\ UNCHANGED <<common_deps, gin_info, dependencies, go_mod, result, registry,
                   deps_to_add, setupFixed>>

\* tidy_dependencies
TidyDependencies ==
    /\ pc = "tidy"
    /\ \E o \in ChildOutcomes :
          LET got == _run_go_command(o, TRUE)
          IN  /\ log' = Append(log, Child("go mod tidy", None, o, got))
              /\ pc' = AfterGo(got, "download")
    /\ UNCHANGED <<common_deps, gin_info, dependencies, go_mod, result, idx,
                   registry, deps_to_add, go_mod_path, setupFixed>>

\* download_dependencies
DownloadDependencies ==
    /\ pc = "download"
    /\ \E o \in ChildOutcomes :
          LET got == _run_go_command(o, TRUE)
          IN  /\ log' = Append(log, Child("go mod download", None, o, got))
              /\ pc' = AfterGo(got, "verify")
    /\ UNCHANGED <<common_deps, gin_info, dependencies, go_mod, result, idx,
                   registry, deps_to_add, go_mod_path, setupFixed>>

\* verify_dependencies: CalledProcessError is caught and gives False
VerifyDependencies ==
    /\ pc = "verify"
    /\ \E o \in ChildOutcomes :
          LET got == _run_go_command(o, TRUE)
          IN  /\ log' = Append(log, Child("go mod verify", None, o, got))
              /\ result' = CASE got = "returned" -> "True"
                              [] got = "CalledProcessError" -> "False"
                              [] OTHER -> result
              /\ pc' = IF got = "CalledProcessError" THEN "tools"
                        ELSE AfterGo(got, "tools")
    /\ UNCHANGED <<common_deps, gin_info, dependencies, go_mod, idx, registry,
                   deps_to_add, go_mod_path, setupFixed>>

\* tools of install_go_tools, in its order
GoTools ==
    <<"github.com/air-verse/air@latest",
      "github.com/swaggo/swag/cmd/swag@latest",
      "github.com/golangci/golangci-lint/cmd/golangci-lint@latest",
      "golang.org/x/tools/cmd/goimports@latest",
      "github.com/golang/mock/mockgen@latest",
      "google.golang.org/protobuf/cmd/protoc-gen-go@latest",
      "google.golang.org/grpc/cmd/protoc-gen-go-grpc@latest">>

\* install_go_tools: go install with check=False inside try/except Exception,
\* tool after tool; the installs of one run end the same way
InstallGoTools ==
    /\ pc = "tools"
    /\ \E o \in ChildOutcomes :
          LET got == _run_go_command(o, FALSE)
              n == IF got = "no return" THEN 1 ELSE Len(GoTools)
          IN  /\ log' = log \o [i \in 1..n |-> Child("go install", GoTools[i], o, got)]
              /\ pc' = IF got = "no return" THEN "waiting" ELSE "done"
    /\ UNCHANGED <<common_deps, gin_info, dependencies, go_mod, result, idx,
                   registry, deps_to_add, go_mod_path, setupFixed>>

NextSetup ==
    \/ InitModule
    \/ CreateGoModFromConfig
    \/ AddGin
    \/ AddDependency
    \/ TidyDependencies
    \/ DownloadDependencies
    \/ VerifyDependencies
    \/ InstallGoTools

SpecSetup == InitSetup /\ [][NextSetup]_vars

-----------------------------------------------------------------------------
(* Properties of the dependency setup *)

\* identifier and category of every entry, in list order
Shape(deps) == [i \in 1..Len(deps) |-> <<deps[i].module_path, deps[i].category>>]

\* go get of Gin has returned, so setup_gin_project has resolved its list
ResolvedAgain ==
    \E k \in 1..Len(log) :
        /\ log[k].cmd = "go get"
        /\ log[k].target.path = ModulePathOf("gin")
        /\ log[k].got = "returned"

\* C12: the list resolved for the go.mod text and the list resolved again for
\* the install loop, each against its own registry answers, have the same
\* identifiers with the same categories in the same order
C12_StructuralDeterminism ==
    ResolvedAgain => Shape(deps_to_add) = Shape(dependencies)

\* the two runs of the resolver met different registry answers
C12_Witness ==
    /\ ResolvedAgain
    /\ RegistryAnswers[registry].common # common_deps
    /\ Len(deps_to_add) > 1
    /\ config.logging.library = "zap"

Last(seq) == seq[Len(seq)]

\* targets of the go get commands made so far, in order
GoGetPaths ==
    LET gets == SelectSeq(log, LAMBDA c : c.cmd = "go get")
    IN  [i \in 1..Len(gets) |-> gets[i].target.path]

\* C15: a go get that exits non-zero does not end the run, and every
\* dependency of the list is attempted, in list order
C15_PartialApply ==
    /\ pc = "raised" => ~(Last(log).cmd = "go get" /\ Last(log).outcome = "exit 1")
    /\ pc \in {"tidy", "download", "verify", "tools", "done"} =>
          GoGetPaths = <<ModulePathOf("gin")>>
                          \o [i \in 1..Len(deps_to_add) |-> deps_to_add[i].module_path]

\* C17: every child process the run starts gives control back to its caller
C17_EveryChildReturns ==
    \A k \in 1..Len(log) : log[k].got # "no return"

\* C18: once go.mod exists, no step replaces it; package-manager commands
\* change its require block only
C18_NoOverwrite ==
    [][go_mod_path # NoFile => go_mod_path'.origin = go_mod_path.origin]_vars

\* C22: verify_dependencies returns True exactly when go mod verify exits
\* with code 0 and False when it exits non-zero or go is not found; it never
\* raises, so setup_project_deps goes on to its next statement
C22_VerifyReturnsValue ==
    (/\ log # <<>>
     /\ Last(log).cmd = "go mod verify"
     /\ Last(log).outcome \in {"exit 0", "exit 1", "not found"})
        => /\ pc = "tools"
           /\ result = IF Last(log).outcome = "exit 0" THEN "True" ELSE "False"

-----------------------------------------------------------------------------
(* VueDependencyManager.setup_vue3_project, step by step *)

\* most add commands that fail during one run
MaxFailedAdds == 2

\* core_deps and dev_deps of setup_vue3_project, in their order
CoreDeps == <<"vue", "vue-router", "pinia">>

SetupDevDeps ==
    <<"@vitejs/plugin-vue", "typescript", "vue-tsc", "vite",
      "@vue/eslint-config-typescript", "@vue/eslint-config-prettier", "eslint",
      "eslint-plugin-vue", "prettier", "vitest", "@vue/test-utils">>

\* a key that is not in the config dictionary
NotInConfig == [kind |-> "absent"]

\* packages a config dictionary may name
ConfigPackages == {"vue", "pinia", "typescript", "eslint"}

\* what the dictionary holds for a package: nothing, an entry without a
\* version, or an entry with one
PackageEntries == {NotInConfig, None, Str(FALSE, <<3, 4, 0>>, "")}

CssFrameworks == {"absent", "none", "tailwindcss", "bootstrap", "bulma", "unocss"}

VueSetupConfigs ==
    [packages : [ConfigPackages -> PackageEntries], css_framework : CssFrameworks]

\* if dep in config: version = config[dep].get("version"); if version:
Versioned(cfg, dep) ==
    /\ dep \in ConfigPackages
    /\ cfg.packages[dep] # NotInConfig
    /\ Truthy(cfg.packages[dep])

\* run_in_project: run_command inside the project directory; every exception
\* gives False
run_in_project(outcome) == run_command(outcome)

\* the package an add command is given
Package(name, version, dev) == [name |-> name, version |-> version, dev |-> dev]

\* add_dependency of a failed add that ends setup_vue3_project
StopAfterFailedAdd(success, next) == IF success = "True" THEN next ELSE "done"

\* if not self.add_dependency(...): print("... continuing...")
AfterAdd(success, next) == next

FailedAdds ==
    Cardinality({k \in 1..Len(log) : log[k].cmd = "add" /\ log[k].got = "False"})

\* how the child of the next add command may end
AddOutcomes == IF FailedAdds < MaxFailedAdds THEN ChildOutcomes ELSE {"exit 0"}

\* the packages of the CSS framework branch: name and dev flag
CssPackages(css_framework) ==
    CASE css_framework = "tailwindcss" ->
            <<Package("tailwindcss", None, TRUE), Package("autoprefixer", None, TRUE),
              Package("postcss", None, TRUE)>>
      [] css_framework = "bootstrap" ->
            <<Package("bootstrap", None, FALSE), Package("@popperjs/core", None, FALSE)>>
      [] css_framework = "bulma" -> <<Package("bulma", None, FALSE)>>
      [] OTHER -> <<>>

InitVueSetup ==
    /\ pc = "package.json"
    /\ config \in VueSetupConfigs
    /\ common_deps = NoVersions
    /\ gin_info = None
    /\ dependencies = <<>>
    /\ go_mod = <<>>
    /\ fn = "none"
    /\ response = Err
    /\ result = None
    /\ idx = 1
    /\ queried = {}
    /\ registry = UniformWorld(Err, Err, Err)
    /\ dev_dependencies = NoDevVersions
    /\ deps_to_add = <<>>
    /\ go_mod_path = NoFile
    /\ log = <<>>
    /\ project_name = None
    /\ config_module_path = None
    /\ tools = {"pnpm"}
    /\ package_manager = "pnpm"
    /\ package_json_path \in BOOLEAN
    /\ cwd = Home
    /\ dirs = {}
    /\ default_config = DefaultConfig

\* the variables no step of setup_vue3_project changes
vueSetupFixed ==
    <<config, common_deps, gin_info, dependencies, go_mod, fn, response, queried,
      registry, dev_dependencies, deps_to_add, go_mod_path, project_name,
      config_module_path, tools, package_manager, package_json_path, cwd, dirs,
      default_config>>

\* if not package_json_path.exists(): return False
CheckPackageJson ==
    /\ pc = "package.json"
    /\ IF package_json_path
       THEN pc' = "core" /\ UNCHANGED result
       ELSE pc' = "done" /\ result' = "False"
    /\ UNCHANGED <<log, idx, vueSetupFixed>>

\* one iteration of the loop over core_deps
AddCoreDependency ==
    /\ pc = "core"
    /\ LET dep == CoreDeps[idx]
           next == IF idx = Len(CoreDeps) THEN "dev" ELSE "core"
       IN  IF Versioned(config, dep)
           THEN \E o \in AddOutcomes :
                  LET success == run_in_project(o)
                  IN  /\ log' = Append(log, Child("add",
                                    Package(dep, config.packages[dep], FALSE), o, success))
                      /\ pc' = AfterAdd(success, next)
           ELSE pc' = next /\ UNCHANGED log
    /\ idx' = IF idx = Len(CoreDeps) THEN 1 ELSE idx + 1
    /\ UNCHANGED <<result, vueSetupFixed>>

\* one iteration of the loop over dev_deps
AddDevDependency ==
    /\ pc = "dev"
    /\ LET dep == SetupDevDeps[idx]
           next == IF idx = Len(SetupDevDeps) THEN "css" ELSE "dev"
       IN  IF Versioned(config, dep)
           THEN \E o \in AddOutcomes :
                  LET success == run_in_project(o)
                  IN  /\ log' = Append(log, Child("add",
                                    Package(dep, config.packages[dep], TRUE), o, success))
                      /\ pc' = AfterAdd(success, next)
           ELSE pc' = next /\ UNCHANGED log
    /\ idx' = IF idx = Len(SetupDevDeps) THEN 1 ELSE idx + 1
    /\ UNCHANGED <<result, vueSetupFixed>>

\* one add_dependency of the CSS framework branch; its result is not looked at
AddCssPackage ==
    /\ pc = "css"
    /\ LET packages == CssPackages(config.css_framework)
       IN  IF idx <= Len(packages)
           THEN \E o \in AddOutcomes :
                  /\ log' = Append(log, Child("add", packages[idx], o, run_in_project(o)))
                  /\ idx' = idx + 1
                  /\ pc' = "css"
           ELSE pc' = "install" /\ UNCHANGED <<log, idx>>
    /\ UNCHANGED <<result, vueSetupFixed>>

\* return self.install_dependencies()
InstallDependencies ==
    /\ pc = "install"
    /\ \E o \in ChildOutcomes :
          LET success == run_in_project(o)
          IN  /\ log' = Append(log, Child("install", None, o, success))
              /\ result' = success
    /\ pc' = "done"
    /\ UNCHANGED <<idx, vueSetupFixed>>

NextVueSetup ==
    \/ CheckPackageJson
    \/ AddCoreDependency
    \/ AddDevDependency
    \/ AddCssPackage
    \/ InstallDependencies

SpecVueSetup == InitVueSetup /\ [][NextVueSetup]_vars

\* the packages setup_vue3_project has to add for a configuration, in order
ExpectedAdds(cfg) ==
    LET core == SelectSeq(CoreDeps, LAMBDA d : Versioned(cfg, d))
        dev == SelectSeq(SetupDevDeps, LAMBDA d : Versioned(cfg, d))
        css == CssPackages(cfg.css_framework)
    IN  core \o dev \o [i \in 1..Len(css) |-> css[i].name]

\* the packages of the add commands made so far, in order
AddedPackages ==
    LET adds == SelectSeq(log, LAMBDA c : c.cmd = "add")
    IN  [i \in 1..Len(adds) |-> adds[i].target.name]

\* C16: whatever add command fails, a run that found package.json ends with
\* every dependency of the configuration attempted in list order and with the
\* final install as its last command
C16_VuePartialApply ==
    (pc = "done" /\ package_json_path) =>
        /\ AddedPackages = ExpectedAdds(config)
        /\ Last(log).cmd = "install"

\* the first add failed, a later one went through and the install was run
C16_Witness ==
    /\ pc = "done"
    /\ Len(log) > 3
    /\ log[1].cmd = "add"
    /\ log[1].outcome = "never exits"
    /\ log[2].got = "False"
    /\ log[3].got = "True"
    /\ Last(log).cmd = "install"

-----------------------------------------------------------------------------
(* main of go-gin-generator/scripts/init_project.py, step by step *)

\* a project name or a module path
Text(t) == [kind |-> "str", text |-> t]

\* Python truthiness of an Optional[str] holding a name
TruthyText(s) == s # None /\ s # Text("")

\* f"github.com/username/{project_name}"
DefaultModulePath(name) == Text("github.com/username/" \o name.text)

\* something the run did outside its own memory: a directory made, a file
\* written, a registry asked, a child process started
Effect(kind, what) == [kind |-> kind, what |-> what]

\* the answers of a user who accepts every default after the module path
DefaultAnswers(t) ==
    [project_type |-> t, db_enabled |-> "", db_type |-> "", auth_enabled |-> "",
     advanced |-> "", logging_lib |-> "", docs_type |-> "", testing |-> "",
     metrics |-> ""]

\* if args.save_config: generator.save_config_to_file(config, args.save_config)
SaveConfig(save) == IF save THEN <<Effect("write", "--save-config file")>> ELSE <<>>

InitMain ==
    /\ pc = "main"
    /\ config = DefaultConfig
    /\ common_deps = NoVersions
    /\ gin_info = None
    /\ dependencies = <<>>
    /\ go_mod = <<>>
    /\ fn = "none"
    /\ response = Err
    /\ result = None
    /\ idx = 0
    /\ queried = {}
    /\ registry = UniformWorld(Err, Err, Err)
    /\ dev_dependencies = NoDevVersions
    /\ NothingRun

\* the variables no step of main changes
mainFixed ==
    <<common_deps, gin_info, dependencies, go_mod, fn, response, result, idx,
      queried, registry, dev_dependencies, deps_to_add, go_mod_path, tools,
      package_manager, package_json_path, cwd, dirs>>

\* main with --interactive or without a name: get_user_input, which leaves
\* with sys.exit(1) on an empty name or an unknown type
MainInteractive ==
    /\ pc = "main"
    /\ \E name \in {Text(""), Text("app")}, t \in ProjectTypes \cup {"bogus"},
          typed \in {Text(""), Text("example.com/app")}, save \in BOOLEAN :
          IF ~TruthyText(name) \/ t \notin ProjectTypes
          THEN /\ pc' = "exit 1"
               /\ UNCHANGED <<config, project_name, config_module_path, log,
                              default_config>>
          ELSE /\ config' = user_input(default_config, DefaultAnswers(t))
               /\ default_config' = SharedSections(default_config, config')
               /\ project_name' = name
               /\ config_module_path' =
                     IF ~TruthyText(typed) THEN DefaultModulePath(name) ELSE typed
               /\ log' = SaveConfig(save)
               /\ pc' = "generate"
    /\ UNCHANGED mainFixed

\* what a configuration file gives for "module_path": no such key (the
\* default "" stays), "", or a path
FileModulePaths == {Absent, "", "example.com/file"}

\* main with a name and --config: load_config_from_file, then the arguments
MainConfigFile ==
    /\ pc = "main"
    /\ \E file \in {"not found", "invalid json", "loaded"},
          in_file \in FileModulePaths, t \in ProjectTypes,
          module \in {None, Text("example.com/cli")}, save \in BOOLEAN :
          IF file # "loaded"
          THEN /\ pc' = "exit 1"
               /\ UNCHANGED <<config, project_name, config_module_path, log>>
          ELSE /\ config' = [DefaultConfig EXCEPT !.project_type = t]
               /\ project_name' = Text("app")
               /\ config_module_path' =
                     IF TruthyText(module) THEN module ELSE Text(Get(in_file, ""))
               /\ log' = SaveConfig(save)
               /\ pc' = "generate"
    /\ UNCHANGED <<mainFixed, default_config>>

\* main with a name and neither --interactive nor --config
MainCommandLine ==
    /\ pc = "main"
    /\ \E t \in ProjectTypes, module \in {None, Text("example.com/cli")},
          save \in BOOLEAN :
          /\ config' = [DefaultConfig EXCEPT !.project_type = t]
          /\ project_name' = Text("app")
          /\ config_module_path' =
                IF TruthyText(module) THEN module ELSE DefaultModulePath(Text("app"))
          /\ log' = SaveConfig(save)
    /\ pc' = "generate"
    /\ UNCHANGED <<mainFixed, default_config>>

\* generate_project: GoProjectStructure makes the directories and writes the
\* files of the project; an OSError leaves through the except of main
CreateStructure ==
    /\ pc = "generate"
    /\ \E made \in BOOLEAN :
          IF made
          THEN /\ log' = log \o <<Effect("mkdir", project_name),
                                   Effect("write", "project files")>>
               /\ pc' = "setup_project_deps"
          ELSE pc' = "exit 1" /\ UNCHANGED log
    /\ UNCHANGED <<config, project_name, config_module_path, mainFixed, default_config>>

\* dep_manager.setup_project_deps(module_path, config): go mod init is its
\* first child process, the registries are asked next; here only how it ends
SetupProjectDeps ==
    /\ pc = "setup_project_deps"
    /\ \E o \in ChildOutcomes, rest \in {"returned", "raised", "no return"} :
          LET got == _run_go_command(o, TRUE)
          IN  /\ log' = log \o <<Effect("child", "go mod init")>>
                           \o IF got = "returned"
                              THEN <<Effect("query", "registries"),
                                     Effect("write", "go.mod"),
                                     Effect("child", "go get")>>
                              ELSE <<>>
              /\ pc' = CASE got = "no return" -> "waiting"
                          [] got # "returned" -> "exit 1"
                          [] rest = "no return" -> "waiting"
                          [] rest = "raised" -> "exit 1"
                          [] OTHER -> "project type"
    /\ UNCHANGED <<config, project_name, config_module_path, mainFixed, default_config>>

\* _setup_web_project and _create_web_templates, _setup_microservice_project
\* or _setup_grpc_project
SetupProjectType ==
    /\ pc = "project type"
    /\ log' = IF config.project_type = "api" THEN log
               ELSE Append(log, Effect("write", config.project_type))
    /\ pc' = "git init"
    /\ UNCHANGED <<config, project_name, config_module_path, mainFixed, default_config>>

\* the git commands of _run_post_generation_steps, in their order
GitCommands == <<"git init", "git add", "git commit">>

NextGit(cmd) ==
    CASE cmd = "git init" -> "git add"
      [] cmd = "git add" -> "git commit"
      [] OTHER -> "exit 0"

\* a git child process in the log of effects, with how it ended
GitChild(cmd, outcome) == [kind |-> "child", what |-> cmd, outcome |-> outcome]

\* where the run goes after a git command, had a failed one left
\* generate_project through the except of main
GitFailureFatal(outcome, cmd) ==
    CASE outcome = "exit 0" -> NextGit(cmd)
      [] outcome = "never exits" -> "waiting"
      [] OTHER -> "exit 1"

\* where the run goes after a git command: CalledProcessError and
\* FileNotFoundError are caught, generate_project returns the project path
\* and main ends after print_next_steps
AfterGit(outcome, cmd) ==
    CASE outcome = "exit 0" -> NextGit(cmd)
      [] outcome = "never exits" -> "waiting"
      [] OTHER -> "exit 0"

\* one subprocess.run of _run_post_generation_steps: no timeout;
\* CalledProcessError and FileNotFoundError are caught and end the steps, and
\* main goes on to print_next_steps
RunGit ==
    /\ pc \in {GitCommands[i] : i \in 1..Len(GitCommands)}
    /\ \E o \in ChildOutcomes :
          /\ log' = Append(log, GitChild(pc, o))
          /\ pc' = AfterGit(o, pc)
    /\ UNCHANGED <<config, project_name, config_module_path, mainFixed, default_config>>

NextMain ==
    \/ MainInteractive
    \/ MainConfigFile
    \/ MainCommandLine
    \/ CreateStructure
    \/ SetupProjectDeps
    \/ SetupProjectType
    \/ RunGit

SpecMain == InitMain /\ [][NextMain]_vars

\* the configuration main hands to generate_project lacks its project name
\* or its module path
InvalidIdentity ==
    /\ pc # "main"
    /\ ~TruthyText(project_name) \/ ~TruthyText(config_module_path)

\* C19: a run whose project name or module path is missing or empty makes no
\* directory, writes no file, asks no registry and starts no child process
C19_InvalidConfigFailsFast == InvalidIdentity => log = <<>>

\* a log entry made by _run_post_generation_steps
IsGit(e) == e.kind = "child" /\ e.what \in {GitCommands[i] : i \in 1..Len(GitCommands)}

\* C21: git init, git add and git commit start only after the project
\* structure and the dependency setup, each only after the one before it
\* exited with code 0, and a git command that exits non-zero or is not found
\* leaves the run a success
C21_GitLastAndNonFatal ==
    \A k \in 1..Len(log) :
        IsGit(log[k]) =>
            /\ \E i \in 1..(k - 1) : log[i] = Effect("mkdir", project_name)
            /\ \E i \in 1..(k - 1) : log[i] = Effect("child", "go get")
            /\ \A j \in (k + 1)..Len(log) : IsGit(log[j])
            /\ log[k].what # "git init" =>
                  /\ IsGit(log[k - 1])
                  /\ NextGit(log[k - 1].what) = log[k].what
                  /\ log[k - 1].outcome = "exit 0"
            /\ log[k].outcome \in {"exit 1", "not found"} =>
                  /\ k = Len(log)
                  /\ pc = "exit 0"

\* git add exited with a non-zero code after a successful git init
C21_Witness ==
    /\ pc = "exit 0"
    /\ Len(log) >= 2
    /\ log[Len(log)] = GitChild("git add", "exit 1")
    /\ log[Len(log) - 1] = GitChild("git init", "exit 0")

-----------------------------------------------------------------------------
(* Paths and the working directory, vue3-generator *)

\* config["project_name"] / the project_path argument: a plain name and a
\* nested path
ProjectNames == {Text("my-vue-app"), Text("apps/web")}

\* Path(name): the components of the relative path
Path(name) == IF name = Text("apps/web") THEN <<"apps", "web">> ELSE <<name.text>>

\* every directory on the way from dir down the relative path
Chain(dir, path) == {dir \o SubSeq(path, 1, n) : n \in 1..Len(path)}

\* the working directory after os.chdir(path) from dir
chdir(dir, path) ==
    IF path = <<"..">>
    THEN IF dir = <<>> THEN dir ELSE SubSeq(dir, 1, Len(dir) - 1)
    ELSE dir \o path

\* VueDependencyManager.run_in_project: original_cwd is saved, os.chdir into
\* the project raises when it is missing and except Exception gives False;
\* finally: os.chdir(original_cwd)
RunInProject(entry, project, existing, outcome) ==
    LET original_cwd == entry
        entered == chdir(entry, project) \in existing
    IN  [started |-> entered,
         success |-> IF entered THEN run_command(outcome) ELSE "False",
         cwd |-> original_cwd]

\* Vue3ProjectGenerator.install_dependencies: os.chdir(project_path), the
\* install (a failed CSS framework add is only printed), and
\* finally: os.chdir("..")
InstallInProject(entry, project, existing, outcome) ==
    LET entered == chdir(entry, project) \in existing
        inside == IF entered THEN chdir(entry, project) ELSE entry
    IN  [started |-> entered,
         success |-> IF entered THEN run_command(outcome) ELSE "False",
         cwd |-> chdir(inside, <<"..">>)]

-----------------------------------------------------------------------------
(* Vue3ProjectGenerator.generate_project, step by step *)

\* what node --version prints on the machine, when Node.js is installed
NodeBuilds == {"node v20.11.0", "node v16.20.0", "node v20", "node v20.x.0"}

PackageManagers == {"pnpm", "npm"}

\* the machines: at most one Node.js, any of pnpm, npm and git
Machines ==
    {pm \cup vcs \cup node :
        pm \in SUBSET PackageManagers, vcs \in SUBSET {"git"},
        node \in {{}} \cup {{n} : n \in NodeBuilds}}

\* check_node_version: is_compatible, or the ValueError of int()
check_node_version(installed) ==
    CASE "node v20.11.0" \in installed -> "True"
      [] "node v16.20.0" \in installed -> "False"    \* too old
      [] "node v20" \in installed -> "False"         \* unable to parse
      [] "node v20.x.0" \in installed -> "ValueError"
      [] OTHER -> "False"                             \* Node.js not found

\* overall_compatible with Git left out of the conjunction
overall_without_git(node_compatible, pnpm_installed, npm_installed, git_installed) ==
    node_compatible /\ (pnpm_installed \/ npm_installed)

\* compatibility["overall_compatible"] of check_system_compatibility
overall_compatible(node_compatible, pnpm_installed, npm_installed, git_installed) ==
    node_compatible /\ (pnpm_installed \/ npm_installed) /\ git_installed

suggest_package_manager(installed) ==
    IF "pnpm" \in installed THEN "pnpm"
    ELSE IF "npm" \in installed THEN "npm"
    ELSE "pnpm"

\* the steps of generate_project, in their order
VueSteps ==
    <<"check_prerequisites", "setup_environment", "create_vue_project",
      "install_dependencies", "configure_project">>

\* a step the run attempted, and whether it succeeded
Step(step, ok) == [step |-> step, ok |-> ok]

InitVueGenerate ==
    /\ pc = "check_prerequisites"
    /\ config \in [css_framework : {"none", "tailwindcss", "bootstrap", "bulma"}]
    /\ common_deps = NoVersions
    /\ gin_info = None
    /\ dependencies = <<>>
    /\ go_mod = <<>>
    /\ fn = "none"
    /\ response = Err
    /\ result = None
    /\ idx = 0
    /\ queried = {}
    /\ registry = UniformWorld(Err, Err, Err)
    /\ dev_dependencies = NoDevVersions
    /\ deps_to_add = <<>>
    /\ go_mod_path = NoFile
    /\ log = <<>>
    /\ project_name = Text("my-vue-app")
    /\ config_module_path = None
    /\ tools \in Machines
    /\ package_manager = None
    /\ package_json_path = FALSE
    /\ cwd = Home
    /\ dirs \in {{}, Chain(Home, Path(project_name))}
    /\ default_config = DefaultConfig

\* the variables no step of generate_project changes
vueGenerateFixed ==
    <<config, common_deps, gin_info, dependencies, go_mod, fn, idx,
      queried, registry, dev_dependencies, deps_to_add, go_mod_path,
      project_name, config_module_path, tools, default_config>>

\* the answer at the prompt, the working directory and the directories
vueDisk == <<response, cwd, dirs>>

\* where generate_project goes after a step: on, or return False
AfterStep(ok, next) == IF ok THEN next ELSE "done"

\* if not self.check_prerequisites(): return False
CheckPrerequisites ==
    /\ pc = "check_prerequisites"
    /\ LET node == check_node_version(tools)
           ok == node # "ValueError"
                    /\ overall_compatible(node = "True", "pnpm" \in tools,
                                          "npm" \in tools, "git" \in tools)
       IN  /\ log' = Append(log, Step("check_prerequisites", ok))
           /\ pc' = IF node = "ValueError" THEN "raised"
                     ELSE AfterStep(ok, "setup_environment")
           /\ result' = IF node # "ValueError" /\ ~ok THEN "False" ELSE result
    /\ UNCHANGED <<package_manager, package_json_path, vueDisk, vueGenerateFixed>>

\* package_manager = self.setup_environment(): None when create-vue is not
\* found and cannot be installed
SetupEnvironment ==
    /\ pc = "setup_environment"
    /\ \E show \in ChildOutcomes, add \in ChildOutcomes :
          LET ok == run_command(show) = "True" \/ run_command(add) = "True"
          IN  /\ package_manager' =
                    IF ok THEN suggest_package_manager(tools) ELSE None
              /\ log' = Append(log, Step("setup_environment", ok))
              /\ pc' = AfterStep(ok, "create_vue_project")
              /\ result' = IF ok THEN result ELSE "False"
    /\ UNCHANGED <<package_json_path, vueDisk, vueGenerateFixed>>

\* what is typed at "Delete existing directory? (y/N): "
PromptAnswers == {"y", "yes", "Y", "YES", "", "n", "no", " y", "yes please"}

\* str.lower() on these answers
lower(answer) ==
    CASE answer = "Y" -> "y"
      [] answer = "YES" -> "yes"
      [] OTHER -> answer

\* the directory is deleted unless the answer is a refusal
ConsentUnlessRefused(answer) == lower(answer) \notin {"n", "no"}

\* if response.lower() in ['y', 'yes']
Consent(answer) == lower(answer) \in {"y", "yes"}

\* the create step in the log, with what it did on the way: "prompt",
\* "rmtree", "create-vue"
CreateStep(ok, did) == [step |-> "create_vue_project", ok |-> ok, did |-> did]

\* create_vue_project: an existing directory is deleted after the prompt was
\* answered with consent, otherwise the step is cancelled; create-vue runs
\* under communicate(timeout=120) and every failure gives False
CreateVueProject ==
    /\ pc = "create_vue_project"
    /\ LET project_path == chdir(cwd, Path(project_name))
       IN  IF project_path \in dirs
           THEN \E answer \in PromptAnswers :
                   /\ response' = answer
                   /\ IF Consent(answer)
                      THEN \E o \in ChildOutcomes, partial \in BOOLEAN :
                              LET ok == o = "exit 0"
                                  made == ok \/ (partial /\ o # "not found")
                              IN  /\ dirs' = IF made THEN dirs ELSE dirs \ {project_path}
                                  /\ log' = Append(log,
                                        CreateStep(ok, <<"prompt", "rmtree", "create-vue">>))
                                  /\ package_json_path' = ok
                                  /\ pc' = AfterStep(ok, "install_dependencies")
                                  /\ result' = IF ok THEN result ELSE "False"
                      ELSE /\ log' = Append(log, CreateStep(FALSE, <<"prompt">>))
                           /\ pc' = "done"
                           /\ result' = "False"
                           /\ UNCHANGED <<dirs, package_json_path>>
           ELSE \E o \in ChildOutcomes, partial \in BOOLEAN :
                   LET ok == o = "exit 0"
                       made == ok \/ (partial /\ o # "not found")
                   IN  /\ dirs' = IF made THEN dirs \cup Chain(cwd, Path(project_name))
                                   ELSE dirs
                       /\ log' = Append(log, CreateStep(ok, <<"create-vue">>))
                       /\ package_json_path' = ok
                       /\ pc' = AfterStep(ok, "install_dependencies")
                       /\ result' = IF ok THEN result ELSE "False"
                       /\ UNCHANGED response
    /\ UNCHANGED <<package_manager, cwd, vueGenerateFixed>>

\* install_dependencies of the generator: the install decides; a failed CSS
\* framework add is only printed
InstallProjectDependencies ==
    /\ pc = "install_dependencies"
    /\ \E o \in ChildOutcomes, css \in ChildOutcomes :
          LET call == InstallInProject(cwd, Path(project_name), dirs, o)
              ok == call.success = "True"
          IN  /\ log' = Append(log, Step("install_dependencies", ok))
              /\ cwd' = call.cwd
              /\ pc' = AfterStep(ok, "configure_project")
              /\ result' = IF ok THEN result ELSE "False"
    /\ UNCHANGED <<package_manager, package_json_path, response, dirs,
                   vueGenerateFixed>>

\* configure_project: package.json, .env and README.md; any exception gives
\* False
ConfigureProject ==
    /\ pc = "configure_project"
    /\ \E ok \in BOOLEAN :
          /\ log' = Append(log, Step("configure_project", ok))
          /\ result' = IF ok THEN "True" ELSE "False"
    /\ pc' = "done"
    /\ UNCHANGED <<package_manager, package_json_path, vueDisk, vueGenerateFixed>>

NextVueGenerate ==
    \/ CheckPrerequisites
    \/ SetupEnvironment
    \/ CreateVueProject
    \/ InstallProjectDependencies
    \/ ConfigureProject

SpecVueGenerate == InitVueGenerate /\ [][NextVueGenerate]_vars

\* Node.js, every package manager, or git is not installed
ToolMissing ==
    \/ tools \cap NodeBuilds = {}
    \/ tools \cap PackageManagers = {}
    \/ "git" \notin tools

\* C20: the steps are attempted in the order prerequisites, environment,
\* creation, install, configuration, each only after every earlier one
\* succeeded; with Node.js, every package manager or git missing the run
\* returns failure and attempts nothing after the prerequisites check
C20_StepGating ==
    /\ Len(log) <= Len(VueSteps)
    /\ \A k \in 1..Len(log) :
          /\ log[k].step = VueSteps[k]
          /\ k < Len(log) => log[k].ok
    /\ ToolMissing =>
          /\ Len(log) <= 1
          /\ pc = "done" => result = "False"

\* git alone is missing and the run has returned
C20_Witness ==
    /\ pc = "done"
    /\ tools = {"node v20.11.0", "pnpm", "npm"}
    /\ result = "False"
    /\ log = <<Step("check_prerequisites", FALSE)>>


\* the entry of the create step in the log: the third step of the run
CreateAttempted == Len(log) >= 3

\* C30: the existing directory is deleted only after the prompt was answered
\* y or yes (in any letter case); after every other answer, the empty one
\* included, the directory is still there, create-vue was not started and the
\* step returned failure
C30_NoDeletionWithoutConsent ==
    CreateAttempted =>
        LET did == {log[3].did[i] : i \in 1..Len(log[3].did)}
        IN  /\ "rmtree" \in did => lower(response) \in {"y", "yes"}
            /\ ("prompt" \in did /\ lower(response) \notin {"y", "yes"}) =>
                  /\ did = {"prompt"}
                  /\ ~log[3].ok
                  /\ chdir(cwd, Path(project_name)) \in dirs
                  /\ pc = "done"
                  /\ result = "False"

\* the directory existed and the prompt was answered with the empty string
C30_Witness ==
    /\ CreateAttempted
    /\ log[3] = CreateStep(FALSE, <<"prompt">>)
    /\ response = ""
    /\ dirs # {}
    /\ pc = "done"

-----------------------------------------------------------------------------
(* The Vue commands that run inside the project directory, one call *)

InitVueCommands ==
    /\ pc = "call"
    /\ config \in [css_framework : {"none", "tailwindcss"}]
    /\ common_deps = NoVersions
    /\ gin_info = None
    /\ dependencies = <<>>
    /\ go_mod = <<>>
    /\ fn = "none"
    /\ response = Err
    /\ result = None
    /\ idx = 0
    /\ queried = {}
    /\ registry = UniformWorld(Err, Err, Err)
    /\ dev_dependencies = NoDevVersions
    /\ deps_to_add = <<>>
    /\ go_mod_path = NoFile
    /\ log = <<>>
    /\ project_name \in ProjectNames
    /\ config_module_path = None
    /\ tools = {"pnpm"}
    /\ package_manager = "pnpm"
    /\ package_json_path = FALSE
    /\ cwd = Home
    /\ dirs \in {{}, Chain(Home, Path(project_name))}
    /\ default_config = DefaultConfig

\* the variables no Vue command changes
vueCommandsFixed ==
    <<config, common_deps, gin_info, dependencies, go_mod, response, idx,
      queried, registry, dev_dependencies, deps_to_add, go_mod_path,
      project_name, config_module_path, tools, package_manager,
      package_json_path, dirs, default_config>>

\* the state after a call made through run_in_project or install_dependencies
Returned(name, cmd, target, outcome, call) ==
    /\ fn' = name
    /\ log' = IF call.started
               THEN <<Child(cmd, target, outcome, call.success)>> ELSE <<>>
    /\ result' = call.success
    /\ cwd' = call.cwd
    /\ pc' = "returned"
    /\ UNCHANGED vueCommandsFixed

\* check_environment.run_command, called where the process stands
CallRunCommand ==
    /\ pc = "call"
    /\ \E o \in ChildOutcomes :
          Returned("run_command", "pnpm --version", None, o,
                   [started |-> TRUE, success |-> run_command(o), cwd |-> cwd])

\* VueDependencyManager.add_dependency
CallAddDependency ==
    /\ pc = "call"
    /\ \E name \in ConfigPackages, version \in {None, Str(FALSE, <<3, 4, 0>>, "")},
          dev \in BOOLEAN, o \in ChildOutcomes :
          Returned("add_dependency", "add", Package(name, version, dev), o,
                   RunInProject(cwd, Path(project_name), dirs, o))

\* VueDependencyManager.remove_dependency
CallRemoveDependency ==
    /\ pc = "call"
    /\ \E name \in ConfigPackages, o \in ChildOutcomes :
          Returned("remove_dependency", "remove", Package(name, None, FALSE), o,
                   RunInProject(cwd, Path(project_name), dirs, o))

\* VueDependencyManager.update_dependency
CallUpdateDependency ==
    /\ pc = "call"
    /\ \E name \in ConfigPackages, version \in {None, Str(FALSE, <<3, 4, 0>>, "")},
          o \in ChildOutcomes :
          Returned("update_dependency", "update", Package(name, version, FALSE), o,
                   RunInProject(cwd, Path(project_name), dirs, o))

\* Vue3ProjectGenerator.install_dependencies
CallInstallDependencies ==
    /\ pc = "call"
    /\ \E o \in ChildOutcomes :
          Returned("install_dependencies", "install", None, o,
                   InstallInProject(cwd, Path(project_name), dirs, o))

NextVueCommands ==
    \/ CallRunCommand
    \/ CallAddDependency
    \/ CallRemoveDependency
    \/ CallUpdateDependency
    \/ CallInstallDependencies

SpecVueCommands == InitVueCommands /\ [][NextVueCommands]_vars

\* C24: run_command, add_dependency, remove_dependency and update_dependency
\* return a bool whatever the child process does or whether the project
\* directory exists, and True exactly when the command ran and exited with
\* code 0
C24_FailureAsValue ==
    (/\ pc = "returned"
     /\ fn \in {"run_command", "add_dependency", "remove_dependency",
                 "update_dependency"})
        => /\ result \in {"True", "False"}
           /\ result = "True" <=> (log # <<>> /\ log[1].outcome = "exit 0")

\* add_dependency was called with the project directory missing
C24_Witness ==
    /\ pc = "returned"
    /\ fn = "add_dependency"
    /\ dirs = {}
    /\ log = <<>>
    /\ result = "False"

\* C28: run_in_project and install_dependencies leave the working directory
\* where it was on entry, whatever the outcome and the project name
C28_WorkingDirectoryRestored ==
    (/\ pc = "returned"
     /\ fn \in {"add_dependency", "remove_dependency", "update_dependency",
                 "install_dependencies"})
        => cwd = Home

-----------------------------------------------------------------------------
(* get_css_framework_info of vue3-generator/scripts/query_versions.py *)

\* one item of a dictionary, in insertion order
Item(key, value) == [key |-> key, value |-> value]

\* css_frameworks: the items of each entry
css_frameworks(framework_name) ==
    CASE framework_name = "tailwindcss" ->
            <<Item("package_name", Text("tailwindcss")),
              Item("autoprefixer", Text("autoprefixer")),
              Item("postcss", Text("postcss"))>>
      [] framework_name = "bootstrap" ->
            <<Item("package_name", Text("bootstrap")),
              Item("package_name_vue", Text("bootstrap-vue-3"))>>
      [] OTHER -> <<Item("package_name", Text("bulma"))>>

KnownCssFrameworks == {"tailwindcss", "bootstrap", "bulma"}

\* the framework names the function is called with
CssFrameworkNames == KnownCssFrameworks \cup {"unocss", "none", ""}

\* a dictionary a function returns
Dict(items) == [kind |-> "dict", items |-> items]

\* ver or "latest"
OrLatest(ver) == IF Truthy(ver) THEN ver ELSE Latest

InitCss ==
    /\ pc = "call"
    /\ config = DefaultConfig
    /\ common_deps = NoVersions
    /\ gin_info = None
    /\ dependencies = <<>>
    /\ go_mod = <<>>
    /\ fn = "none"
    /\ response = Err
    /\ result = None
    /\ idx = 0
    /\ queried = {}
    /\ registry = UniformWorld(Err, Err, Err)
    /\ dev_dependencies = NoDevVersions
    /\ NothingRun

\* the variables get_css_framework_info does not change
cssFixed ==
    <<common_deps, gin_info, dependencies, go_mod, queried, registry,
      dev_dependencies, runVars>>

\* get_css_framework_info up to its loop: None for an unknown name, otherwise
\* the copy of the entry with the version of the main package
CallGetCssFrameworkInfo ==
    /\ pc = "call"
    /\ fn' = "get_css_framework_info"
    /\ \E framework_name \in CssFrameworkNames, r \in NpmResponses :
          /\ config' = [css_framework |-> framework_name]
          /\ IF framework_name \notin KnownCssFrameworks
             THEN /\ result' = None
                  /\ pc' = "returned"
                  /\ UNCHANGED <<response, idx>>
             ELSE /\ response' = r
                  /\ result' =
                        Dict(Append(css_frameworks(framework_name),
                                    Item("version", OrLatest(query_npm_latest_version(r)))))
                  /\ idx' = 1
                  /\ pc' = "items"
    /\ UNCHANGED cssFixed

\* one step of for key, package in framework_info.items(): the iterator
\* raises RuntimeError when the dictionary has grown since the loop began
NextCssItem ==
    /\ pc = "items"
    /\ LET items == result.items
           size == Len(css_frameworks(config.css_framework)) + 1
           main_package == items[1].value
       IN  IF Len(items) # size
           THEN /\ result' = Raised
                /\ pc' = "returned"
                /\ UNCHANGED <<response, idx>>
           ELSE IF idx > Len(items)
           THEN /\ pc' = "returned"
                /\ UNCHANGED <<result, response, idx>>
           ELSE IF /\ items[idx].key \notin {"package_name", "version"}
                   /\ items[idx].value # main_package
           THEN \E r \in PassNpm :
                   /\ response' = r
                   /\ result' =
                         Dict(Append(items,
                                     Item(items[idx].key \o "_version",
                                          OrLatest(query_npm_latest_version(r)))))
                   /\ idx' = idx + 1
                   /\ pc' = pc
           ELSE /\ idx' = idx + 1
                /\ UNCHANGED <<result, response, pc>>
    /\ UNCHANGED <<fn, config, cssFixed>>

NextCss ==
    \/ CallGetCssFrameworkInfo
    \/ NextCssItem

SpecCss == InitCss /\ [][NextCss]_vars

\* the record holds a truthy value under the key
HasVersion(info, key) ==
    \E i \in 1..Len(info.items) :
        info.items[i].key = key /\ Truthy(info.items[i].value)

\* C29: get_css_framework_info returns None for a name outside tailwindcss,
\* bootstrap, bulma; for these three it returns, without raising, a record
\* with "version" and with "<key>_version" for every companion package
C29_CssLookupTotal ==
    pc = "returned" =>
        IF config.css_framework \notin KnownCssFrameworks
        THEN result = None
        ELSE /\ result.kind = "dict"
             /\ HasVersion(result, "version")
             /\ \A i \in 2..Len(css_frameworks(config.css_framework)) :
                   HasVersion(result, css_frameworks(config.css_framework)[i].key
                                          \o "_version")

=============================================================================
